---- MODULE Spec2Model ----
(***************************************************************************)
(* A model of the CSV chatbot's retrieval-augmented-generation core:       *)
(* src/lib/vector-service.ts (ingest, query, list, delete), the chat and   *)
(* upload routes that call it, and the store schema with its               *)
(* match_documents search function.                                        *)
(*                                                                         *)
(* The store is two tables kept as sequences of rows in insertion order.   *)
(* Every await of a handler is a point where another request may run, so   *)
(* each handler is a chain of actions, one per awaited external call.      *)
(* Text is abstracted to lengths: a row's flattened content is the         *)
(* sequence of the lengths of its "header: value" fields.                  *)
(***************************************************************************)
EXTENDS Integers, Sequences, FiniteSets, TLC

\* ------------------------------------------------------------------ bounds
\* Number of documents: the ids the store hands out to uploads, and the number
\* of documents a store holds when a chat request arrives.
MaxDocs == 2

\* Upload requests in flight.
Workers == {1}

\* Row counts of the uploaded files: the tier boundaries and their neighbours.
RowCounts == {0, 4, 10, 11, 50, 51, 500, 501}

\* Flattened content of row 1 of every file: five fields, 2690 characters,
\* every field shorter than the smallest chunk size.
WideRow == <<700, 700, 500, 90, 700>>
\* Flattened content of every other row: two short fields.
ShortRow == <<12, 14>>

\* ------------------------------------------------------------- arithmetic
Max(a, b) == IF a >= b THEN a ELSE b
Min(a, b) == IF a <= b THEN a ELSE b

RECURSIVE SumSeq(_)
SumSeq(s) == IF s = <<>> THEN 0 ELSE Head(s) + SumSeq(Tail(s))

Take(s, n) == SubSeq(s, 1, Min(Len(s), n))

InSeq(x, s) == \E i \in 1..Len(s) : s[i] = x

\* ------------------------------------------------------------------ parser
\* Most columns and most data rows of a parsed table.
MaxCols == 2
MaxRows == 2

\* Cell texts, as sequences of characters: empty, plain, holding the
\* delimiter, holding a line break.
Cells == {<<>>, <<"x">>, <<"x", ",", "y">>, <<"x", "\n", "y">>}

\* Array.join
RECURSIVE Join(_, _, _)
Join(parts, sep, i) ==
  IF i > Len(parts) THEN <<>>
  ELSE IF i = Len(parts) THEN parts[i]
  ELSE parts[i] \o <<sep>> \o Join(parts, sep, i + 1)

\* csvContent: the header line, a line break, and the rows joined by line
\* breaks, each row its values in header order joined by commas; nothing is
\* quoted.
CsvContent(headers, data) ==
  Join(headers, ",", 1) \o <<"\n">>
  \o Join([r \in 1..Len(data) |-> Join(data[r], ",", 1)], "\n", 1)

\* The pieces of a text between occurrences of a separator character.
RECURSIVE SplitOn(_, _, _, _)
SplitOn(text, sep, i, cur) ==
  IF i > Len(text) THEN <<cur>>
  ELSE IF text[i] = sep THEN <<cur>> \o SplitOn(text, sep, i + 1, <<>>)
  ELSE SplitOn(text, sep, i + 1, Append(cur, text[i]))

\* Papa.parse(text, {header: true, skipEmptyLines: true}) on a text without
\* quote characters: lines are split at line breaks and fields at commas, a
\* line that is one empty field is skipped, the first line left gives
\* meta.fields and every further line is a data row.
PapaParse(text) ==
  LET lines == SplitOn(text, "\n", 1, <<>>)
      rows  == [i \in 1..Len(lines) |-> SplitOn(lines[i], ",", 1, <<>>)]
      kept  == SelectSeq(rows, LAMBDA r : ~(Len(r) = 1 /\ r[1] = <<>>))
  IN [fields |-> IF kept = <<>> THEN <<>> ELSE Head(kept),
      data   |-> IF kept = <<>> THEN <<>> ELSE Tail(kept)]

\* parseCsvToDocuments: one LangChain document per data row, numbered from 1.
ParsedDocs(rows) ==
  [i \in 1..rows |->
     [pageContent |-> IF i = 1 THEN WideRow ELSE ShortRow,
      metadata    |-> [row |-> i]]]

\* ----------------------------------------------------------------- chunker
\* Tier selection with the 50-row boundary moved into the upper tier.
ChunkParams_Strict(totalRows) ==
  IF totalRows < 50 THEN [chunkSize |-> 2000, chunkOverlap |-> 100]
  ELSE IF totalRows <= 500 THEN [chunkSize |-> 1500, chunkOverlap |-> 75]
  ELSE [chunkSize |-> 800, chunkOverlap |-> 40]

\* Tier selection of processUploadedFile.
ChunkParams(totalRows) ==
  IF totalRows <= 50 THEN [chunkSize |-> 2000, chunkOverlap |-> 100]
  ELSE IF totalRows <= 500 THEN [chunkSize |-> 1500, chunkOverlap |-> 75]
  ELSE [chunkSize |-> 800, chunkOverlap |-> 40]

\* A bypass that stops one row short of the boundary.
BypassSplitter_Below(totalRows) == totalRows < 10

\* The very-small-dataset branch that skips the splitter.
BypassSplitter(totalRows) == totalRows <= 10

\* RecursiveCharacterTextSplitter.mergeSplits, the pop loop that keeps the
\* overlap: drop leading pieces while more than the overlap is held, or while
\* the next piece still does not fit.
RECURSIVE PopOverlap(_, _, _, _, _)
PopOverlap(cur, total, len, size, overlap) ==
  IF total > overlap \/ (total + len > size /\ total > 0)
  THEN PopOverlap(Tail(cur), total - Head(cur), len, size, overlap)
  ELSE <<cur, total>>

\* RecursiveCharacterTextSplitter.mergeSplits with the separator kept inside
\* the pieces (keepSeparator), so the joining separator has length 0.
RECURSIVE MergeSplits(_, _, _, _, _, _, _)
MergeSplits(splits, i, out, cur, total, size, overlap) ==
  IF i > Len(splits)
  THEN IF cur = <<>> THEN out ELSE Append(out, cur)
  ELSE LET len    == splits[i]
           flush  == total + len > size /\ cur # <<>>
           popped == IF flush THEN PopOverlap(cur, total, len, size, overlap)
                     ELSE <<cur, total>>
       IN MergeSplits(splits, i + 1,
                      IF flush THEN Append(out, cur) ELSE out,
                      Append(popped[1], len), popped[2] + len, size, overlap)

\* splitText of one row: the row is cut at ", " into its fields, each of which
\* is shorter than the chunk size, and the fields are merged back into chunks.
SplitText(content, size, overlap) ==
  MergeSplits(content, 1, <<>>, <<>>, 0, size, overlap)

\* splitDocuments: every row is split on its own and keeps its metadata; the
\* chunks of rows lo..hi in row order.
RECURSIVE SplitDocuments(_, _, _, _, _)
SplitDocuments(docs, lo, hi, size, overlap) ==
  IF lo > hi THEN <<>>
  ELSE IF lo = hi
  THEN LET parts == SplitText(docs[lo].pageContent, size, overlap)
       IN [j \in 1..Len(parts) |->
             [pageContent |-> parts[j], metadata |-> docs[lo].metadata]]
  ELSE LET mid == (lo + hi) \div 2
       IN SplitDocuments(docs, lo, mid, size, overlap)
          \o SplitDocuments(docs, mid + 1, hi, size, overlap)

\* The chunk_index stamped into a chunk's metadata (zero-based map index).
StampIndex(index) == index - 1

\* docsWithDocumentId: the chunks with document_id and chunk_index stamped
\* into their metadata.
DocsWithDocumentId(rows, documentId, size, overlap, bypass) ==
  LET docs   == ParsedDocs(rows)
      pieces == IF bypass THEN docs ELSE SplitDocuments(docs, 1, Len(docs), size, overlap)
  IN [index \in 1..Len(pieces) |->
        [pageContent |-> pieces[index].pageContent,
         metadata    |-> [row         |-> pieces[index].metadata.row,
                          document_id |-> documentId,
                          chunk_index |-> StampIndex(index)]]]

\* A chunk_index column counted from 1.
InsertIndex_OneBased(index) == index

\* The chunk_index column of an inserted chunk (zero-based map index).
InsertIndex(index) == index - 1

\* chunkInserts: the rows written to document_chunks.
ChunkInserts(chunkDocs, documentId) ==
  [index \in 1..Len(chunkDocs) |->
     [document_id |-> documentId,
      content     |-> chunkDocs[index].pageContent,
      chunk_index |-> InsertIndex(index),
      metadata    |-> chunkDocs[index].metadata]]

\* ----------------------------------------------------------------- planner
\* documents.select(...).in("id", documentIds).limit(10)
DocLimit == 10

\* The scope filter is applied only for a non-empty id list.
Scoped(documentIds) == documentIds.defined /\ Len(documentIds.ids) > 0

\* A documents query that drops the id filter.
SelectDocuments_Unfiltered(docs, documentIds) == Take(docs, DocLimit)

\* A documents query that returns nothing unless every requested id exists.
SelectDocuments_AllOrNothing(docs, documentIds) ==
  IF Scoped(documentIds)
     /\ \E i \in 1..Len(documentIds.ids) :
           \A j \in 1..Len(docs) : docs[j].id # documentIds.ids[i]
  THEN <<>>
  ELSE Take(IF Scoped(documentIds)
            THEN SelectSeq(docs, LAMBDA d : InSeq(d.id, documentIds.ids))
            ELSE docs,
            DocLimit)

\* The rows the documents query returns for a scope.
SelectDocuments(docs, documentIds) ==
  Take(IF Scoped(documentIds)
       THEN SelectSeq(docs, LAMBDA d : InSeq(d.id, documentIds.ids))
       ELSE docs,
       DocLimit)

\* documents.reduce((sum, doc) => sum + (doc.metadata?.row_count || 0), 0)
TotalRows(found) == SumSeq([i \in 1..Len(found) |-> found[i].row_count])

\* The exact count of document_chunks for a scope.
CountChunks(chunkRows, documentIds) ==
  IF Scoped(documentIds)
  THEN Len(SelectSeq(chunkRows, LAMBDA c : InSeq(c.document_id, documentIds.ids)))
  ELSE Len(chunkRows)

\* totalChunks || fallback: null and 0 are both falsy.
OrDefault(hasCount, totalChunks, fallback) ==
  IF hasCount /\ totalChunks # 0 THEN totalChunks ELSE fallback

\* A planner with the single fallback 50 in both count-dependent tiers.
RetrievalK_OneDefault(totalRows, hasCount, totalChunks) ==
  IF totalRows <= 10 THEN 10 * Max(OrDefault(hasCount, totalChunks, 50), 10)
  ELSE IF totalRows <= 50
  THEN 10 * Min(Max(OrDefault(hasCount, totalChunks, 50), 20), 100)
  ELSE IF totalRows <= 500 THEN 10 * Min(totalRows, 150)
  ELSE Min(3 * totalRows, 10 * 200)

\* retrievalK in tenths, so that totalRows * 0.3 stays an integer.
RetrievalK(totalRows, hasCount, totalChunks) ==
  IF totalRows <= 10 THEN 10 * Max(OrDefault(hasCount, totalChunks, 50), 10)
  ELSE IF totalRows <= 50
  THEN 10 * Min(Max(OrDefault(hasCount, totalChunks, 100), 20), 100)
  ELSE IF totalRows <= 500 THEN 10 * Min(totalRows, 150)
  ELSE Min(3 * totalRows, 10 * 200)

\* Math.floor in place of Math.round.
MathFloor(tenths) == tenths \div 10

\* Math.round of a value given in tenths: halves go up.
MathRound(tenths) == (tenths + 5) \div 10

\* A configuration that tests only whether documentIds is present, so that an
\* empty list gets a filter too.
RetrieverConfig_Truthy(retrievalK, documentIds) ==
  [k         |-> MathRound(retrievalK),
   hasFilter |-> documentIds.defined,
   filter    |-> IF documentIds.defined THEN documentIds.ids ELSE <<>>]

\* retrieverConfig: k, and the document_id filter when ids were requested.
RetrieverConfig(retrievalK, documentIds) ==
  [k         |-> MathRound(retrievalK),
   hasFilter |-> Scoped(documentIds),
   filter    |-> IF Scoped(documentIds) THEN documentIds.ids ELSE <<>>]

\* match_documents(query_embedding, match_threshold, match_count, filter):
\* the rows above the similarity threshold, at most match_count of them.  The
\* WHERE clause tests the threshold only.
MatchDocuments(chunkRows, similar, match_count, filter) ==
  Take(SelectSeq(chunkRows, LAMBDA c : c.document_id \in similar), match_count)

\* The retrieved context: the document and index of every returned chunk.
Context(rows) ==
  [i \in 1..Len(rows) |->
     [document_id |-> rows[i].document_id,
      chunk_index |-> rows[i].metadata.chunk_index]]

\* -------------------------------------------------------------------- gate
\* Raw answers of the relevance classifier.
GateAnswers == {"YES", "NO", "Maybe", " no\n", "Yes."}

\* response.content.toString().trim().toUpperCase()
TrimUpper(answer) ==
  CASE answer = "Maybe" -> "MAYBE"
    [] answer = " no\n" -> "NO"
    [] answer = "Yes."  -> "YES."
    [] OTHER            -> answer

\* A gate with the comparison inverted.
IsDataRelated_Inverted(answer) == TrimUpper(answer) # "YES"

\* checkIfDataRelated
IsDataRelated(answer) == TrimUpper(answer) = "YES"

Refusal == "I can only answer questions about the CSV data you've uploaded. Please ask questions about your data such as counts, statistics, specific records, or data analysis."
NoMatch == "No documents found with the specified IDs."
NoUpload == "No CSV file uploaded. Please upload a CSV file first before asking questions."
Sorry == "Sorry, I could not find an answer to your question."

\* ------------------------------------------------------------------- state
VARIABLES
  documents,         \* table documents: rows [id, row_count], insertion order
  document_chunks,   \* table document_chunks, insertion order
  nextId,            \* next id the store generates
  globalEmbeddings,  \* the embeddings client: 0 = null, else the n-th made
  globalChain,       \* document id the legacy chain is scoped to, 0 = null
  up,                \* per upload request: position and locals
  chat,              \* the chat request: position and locals
  csv,               \* the parser: parsed table and its canonical text
  panel              \* the ChatPanel component: its state and its requests

vars == <<documents, document_chunks, nextId, globalEmbeddings, globalChain,
          up, chat, csv, panel>>

\* formData.get("file") of a request without a file.
NoFile == [hasFile |-> FALSE, csvName |-> FALSE, csvType |-> FALSE, size |-> 0]

IdleUpload ==
  [pc |-> "idle", file |-> NoFile, rows |-> 0, documentId |-> 0,
   chunkSize |-> 0, texts |-> 0,
   chunkOverlap |-> 0, bypass |-> FALSE, calls |-> <<>>, status |-> 0,
   result |-> [success |-> FALSE, chunksStored |-> 0, documentId |-> 0,
               error |-> ""]]

Undefined == [defined |-> FALSE, ids |-> <<>>]

IdleChat ==
  [pc |-> "idle", route |-> "", documentIds |-> Undefined, gate |-> "",
   calls |-> <<>>,
   found |-> <<>>, totalRows |-> 0, hasCount |-> FALSE, totalChunks |-> 0,
   retrievalK |-> 0,
   retrieverConfig |-> [k |-> 0, hasFilter |-> FALSE, filter |-> <<>>],
   context |-> <<>>, answer |-> "", status |-> 0, message |-> ""]

\* The messages ChatPanel shows.
Greeting ==
  [role |-> "assistant", content |-> "Hi! Upload CSV files", isLoading |-> FALSE]
WarningMsg ==
  [role |-> "assistant",
   content |-> "Please select at least one document to chat with from the upload panel on the left.",
   isLoading |-> FALSE]
LoadingMsg ==
  [role |-> "assistant", content |-> "Thinking...", isLoading |-> TRUE]
UserMsg(text) == [role |-> "user", content |-> text, isLoading |-> FALSE]
ReplyMsg(text) == [role |-> "assistant", content |-> text, isLoading |-> FALSE]

\* ChatPanel as mounted: the greeting, an empty input, nothing in flight.
NewPanel ==
  [messages |-> <<Greeting>>, input |-> "", isLoading |-> FALSE,
   selected |-> FALSE, inFlight |-> 0]

IdleCsv ==
  [pc |-> "idle", headers |-> <<>>, data |-> <<>>, csvContent |-> <<>>,
   fields |-> <<>>, rowCount |-> 0]

\* A process that starts on an empty store.
Init ==
  /\ documents = <<>>
  /\ document_chunks = <<>>
  /\ nextId = 1
  /\ globalEmbeddings = 0
  /\ globalChain = 0
  /\ up = [w \in Workers |-> IdleUpload]
  /\ chat = IdleChat
  /\ csv = IdleCsv
  /\ panel = NewPanel

\* ------------------------------------------------------- process handles
\* A client that is made anew on every use.
EnsureEmbeddings_Anew(handle) == Min(handle + 1, 2)

\* if (!globalEmbeddings) globalEmbeddings = new OpenAIEmbeddings(...)
EnsureEmbeddings(handle) == IF handle = 0 THEN 1 ELSE handle

\* isVectorStoreReady
IsVectorStoreReady(chain) == chain # 0

\* queryVectorStore before the chain is invoked: the error it throws, or "".
QueryVectorStoreError(chain) ==
  IF chain = 0
  THEN "No CSV file has been uploaded yet. Please upload a CSV file first."
  ELSE ""

\* ------------------------------------------------------------ upload route
\* const maxSize = 3 * 1024 * 1024
MaxSize == 3 * 1024 * 1024

\* The files of upload requests: none, and files with or without the .csv
\* name and the text/csv type, of a size below, at and above the limit.
UploadFiles ==
  {NoFile} \cup
  [hasFile : {TRUE}, csvName : BOOLEAN, csvType : BOOLEAN,
   size : {1024, MaxSize, MaxSize + 1}]

\* A size check that also turns away a file of exactly the limit.
ValidateUpload_AtLimit(file) ==
  IF ~file.hasFile THEN "No file provided"
  ELSE IF ~file.csvName /\ ~file.csvType THEN "Only CSV files are allowed"
  ELSE IF file.size >= MaxSize THEN "File size exceeds 3MB limit"
  ELSE ""

\* The validation of the upload route: the error of the 400 response, or ""
\* when the file goes on to processUploadedFile.
ValidateUpload(file) ==
  IF ~file.hasFile THEN "No file provided"
  ELSE IF ~file.csvName /\ ~file.csvType THEN "Only CSV files are allowed"
  ELSE IF file.size > MaxSize THEN "File size exceeds 3MB limit"
  ELSE ""

\* POST /api/upload up to the call of processUploadedFile.
UploadPost(w) ==
  /\ up[w].pc = "idle"
  /\ nextId <= MaxDocs
  /\ \E file \in UploadFiles :
       LET error == ValidateUpload(file)
       IN IF error = ""
          THEN up' = [up EXCEPT ![w].pc = "accepted", ![w].file = file]
          ELSE up' = [up EXCEPT ![w].pc = "rejected", ![w].file = file,
                                ![w].status = 400,
                                ![w].result.error = error]
  /\ UNCHANGED <<documents, document_chunks, nextId, globalEmbeddings,
                 globalChain, chat, csv, panel>>

\* ------------------------------------------------------------------ ingest
\* A catch block that reports failure but keeps the chunk count reached.
IngestFailed_KeepCount(w, call, error) ==
  up' = [up EXCEPT ![w].pc = "failed",
                   ![w].file = NoFile,
                   ![w].calls = Append(up[w].calls, call),
                   ![w].status = 500,
                   ![w].result.success = FALSE,
                   ![w].result.error = error]

\* The catch block of processUploadedFile: a structured failure result, which
\* the upload route answers with HTTP 500.
IngestFailed(w, call, error) ==
  up' = [up EXCEPT ![w].pc = "failed",
                   ![w].file = NoFile,
                   ![w].calls = Append(up[w].calls, call),
                   ![w].status = 500,
                   ![w].result = [success |-> FALSE, chunksStored |-> 0,
                                  documentId |-> 0, error |-> error]]

\* An ingest that stores the document row before it parses the file.
IngestParse_InsertFirst(w) ==
  /\ up[w].pc = "accepted"
  /\ nextId <= MaxDocs
  /\ \E rows \in RowCounts, ok \in BOOLEAN :
       IF ok
       THEN /\ up' = [up EXCEPT ![w].pc = "parsed", ![w].rows = rows,
                                ![w].file = NoFile,
                                ![w].calls = <<"parse">>]
            /\ UNCHANGED <<documents, nextId>>
       ELSE /\ IngestFailed(w, "parse", "Failed to parse CSV")
            /\ documents' = Append(documents,
                                   [id |-> nextId, row_count |-> 0])
            /\ nextId' = nextId + 1
  /\ UNCHANGED <<document_chunks, globalEmbeddings, globalChain, chat, csv,
                 panel>>

\* processUploadedFile is entered and parseCsvToDocuments runs on a file of
\* one of the given row counts; the file is read here and not looked at again.
IngestParseFrom(w, rowCounts) ==
  /\ up[w].pc = "accepted"
  /\ nextId <= MaxDocs
  /\ \E rows \in rowCounts, ok \in BOOLEAN :
       IF ok
       THEN up' = [up EXCEPT ![w].pc = "parsed", ![w].rows = rows,
                             ![w].file = NoFile,
                             ![w].calls = <<"parse">>]
       ELSE IngestFailed(w, "parse", "Failed to parse CSV")
  /\ UNCHANGED <<documents, document_chunks, nextId, globalEmbeddings,
                 globalChain, chat, csv, panel>>

IngestParse(w) == IngestParseFrom(w, RowCounts)

\* The insert into documents, then tier selection and chunking.
IngestPutDocument(w) ==
  /\ up[w].pc = "parsed"
  /\ \E ok \in BOOLEAN :
       IF ok /\ nextId <= MaxDocs
       THEN LET totalRows == up[w].rows
                params    == ChunkParams(totalRows)
            IN /\ documents' = Append(documents,
                                      [id |-> nextId, row_count |-> totalRows])
               /\ nextId' = nextId + 1
               /\ up' = [up EXCEPT ![w].pc = "chunked",
                                   ![w].calls =
                                      Append(up[w].calls, "documents.insert"),
                                   ![w].documentId = nextId,
                                   ![w].chunkSize = params.chunkSize,
                                   ![w].chunkOverlap = params.chunkOverlap,
                                   ![w].bypass = BypassSplitter(totalRows)]
       ELSE /\ IngestFailed(w, "documents.insert", "Failed to store document")
            /\ UNCHANGED <<documents, nextId>>
  /\ UNCHANGED <<document_chunks, globalEmbeddings, globalChain, chat, csv,
                 panel>>

\* The number of texts handed to embedDocuments: one per chunk.
EmbeddedTexts(w) ==
  Len(DocsWithDocumentId(up[w].rows, up[w].documentId, up[w].chunkSize,
                         up[w].chunkOverlap, up[w].bypass))

\* An embedding step that calls embedDocuments a second time.
IngestEmbed_Twice(w) ==
  /\ up[w].pc = "chunked"
  /\ globalEmbeddings' = EnsureEmbeddings(globalEmbeddings)
  /\ \E ok \in BOOLEAN :
       IF ok THEN up' = [up EXCEPT ![w].pc = "embedded",
                                   ![w].texts = EmbeddedTexts(w),
                                   ![w].calls =
                                      up[w].calls \o <<"embedDocuments",
                                                       "embedDocuments">>]
       ELSE IngestFailed(w, "embedDocuments", "embedding failed")
  /\ UNCHANGED <<documents, document_chunks, nextId, globalChain, chat, csv,
                 panel>>

\* An embedding step that deletes the document row again when the batch fails.
IngestEmbed_Rollback(w) ==
  /\ up[w].pc = "chunked"
  /\ globalEmbeddings' = EnsureEmbeddings(globalEmbeddings)
  /\ \E ok \in BOOLEAN :
       IF ok THEN /\ up' = [up EXCEPT ![w].pc = "embedded",
                                      ![w].texts = EmbeddedTexts(w),
                                      ![w].calls =
                                         Append(up[w].calls, "embedDocuments")]
                  /\ UNCHANGED documents
       ELSE /\ IngestFailed(w, "embedDocuments", "embedding failed")
            /\ documents' =
                 SelectSeq(documents, LAMBDA d : d.id # up[w].documentId)
  /\ UNCHANGED <<document_chunks, nextId, globalChain, chat, csv, panel>>

\* The embeddings client is created on first use and embedDocuments is called
\* once with all chunk contents.
IngestEmbed(w) ==
  /\ up[w].pc = "chunked"
  /\ globalEmbeddings' = EnsureEmbeddings(globalEmbeddings)
  /\ \E ok \in BOOLEAN :
       IF ok THEN up' = [up EXCEPT ![w].pc = "embedded",
                                   ![w].texts = EmbeddedTexts(w),
                                   ![w].calls =
                                      Append(up[w].calls, "embedDocuments")]
       ELSE IngestFailed(w, "embedDocuments", "embedding failed")
  /\ UNCHANGED <<documents, document_chunks, nextId, globalChain, chat, csv,
                 panel>>

\* A chunk insert that deletes the document row again when it fails.
IngestPutChunks_Rollback(w) ==
  /\ up[w].pc = "embedded"
  /\ \E ok \in BOOLEAN :
       IF ok /\ \E i \in 1..Len(documents) : documents[i].id = up[w].documentId
       THEN LET chunkDocs == DocsWithDocumentId(up[w].rows, up[w].documentId,
                                                up[w].chunkSize,
                                                up[w].chunkOverlap,
                                                up[w].bypass)
            IN /\ document_chunks' =
                    document_chunks \o ChunkInserts(chunkDocs, up[w].documentId)
               /\ up' = [up EXCEPT ![w].pc = "stored",
                                   ![w].calls = Append(up[w].calls,
                                                       "document_chunks.insert"),
                                   ![w].result.chunksStored = Len(chunkDocs)]
               /\ UNCHANGED documents
       ELSE /\ IngestFailed(w, "document_chunks.insert", "Failed to insert chunks")
            /\ documents' =
                 SelectSeq(documents, LAMBDA d : d.id # up[w].documentId)
            /\ UNCHANGED document_chunks
  /\ UNCHANGED <<nextId, globalEmbeddings, globalChain, chat, csv, panel>>

\* A chunk insert that takes the document id from the newest document row
\* instead of the row this ingest inserted.
IngestPutChunks_NewestId(w) ==
  /\ up[w].pc = "embedded"
  /\ \E ok \in BOOLEAN :
       IF ok /\ \E i \in 1..Len(documents) : documents[i].id = up[w].documentId
       THEN LET chunkDocs == DocsWithDocumentId(up[w].rows, nextId - 1,
                                                up[w].chunkSize,
                                                up[w].chunkOverlap,
                                                up[w].bypass)
            IN /\ document_chunks' =
                    document_chunks \o ChunkInserts(chunkDocs, nextId - 1)
               /\ up' = [up EXCEPT ![w].pc = "stored",
                                   ![w].calls = Append(up[w].calls,
                                                       "document_chunks.insert"),
                                   ![w].result.chunksStored = Len(chunkDocs)]
       ELSE /\ IngestFailed(w, "document_chunks.insert", "Failed to insert chunks")
            /\ UNCHANGED document_chunks
  /\ UNCHANGED <<documents, nextId, globalEmbeddings, globalChain, chat, csv,
                 panel>>

\* The bulk insert into document_chunks.  document_id references documents(id),
\* so the insert is rejected when the document row is gone.
IngestPutChunks(w) ==
  /\ up[w].pc = "embedded"
  /\ \E ok \in BOOLEAN :
       IF ok /\ \E i \in 1..Len(documents) : documents[i].id = up[w].documentId
       THEN LET chunkDocs == DocsWithDocumentId(up[w].rows, up[w].documentId,
                                                up[w].chunkSize,
                                                up[w].chunkOverlap,
                                                up[w].bypass)
            IN /\ document_chunks' =
                    document_chunks \o ChunkInserts(chunkDocs, up[w].documentId)
               /\ up' = [up EXCEPT ![w].pc = "stored",
                                   ![w].calls = Append(up[w].calls,
                                                       "document_chunks.insert"),
                                   ![w].result.chunksStored = Len(chunkDocs)]
       ELSE /\ IngestFailed(w, "document_chunks.insert", "Failed to insert chunks")
            /\ UNCHANGED document_chunks
  /\ UNCHANGED <<documents, nextId, globalEmbeddings, globalChain, chat, csv,
                 panel>>

\* The legacy retrieval chain is rebuilt for this document and the result is
\* returned; the upload route answers a success with HTTP 200.
IngestBuildChain(w) ==
  /\ up[w].pc = "stored"
  /\ \E ok \in BOOLEAN :
       IF ok
       THEN /\ globalChain' = up[w].documentId
            /\ up' = [up EXCEPT ![w].pc = "done",
                                ![w].calls = Append(up[w].calls, "chain"),
                                ![w].status = 200,
                                ![w].result.success = TRUE,
                                ![w].result.documentId = up[w].documentId]
       ELSE /\ IngestFailed(w, "chain", "chain construction failed")
            /\ UNCHANGED globalChain
  /\ UNCHANGED <<documents, document_chunks, nextId, globalEmbeddings, chat,
                 csv, panel>>

\* The upload route has answered; the request slot is free again.
IngestReturn(w) ==
  /\ up[w].pc \in {"done", "failed", "rejected"}
  /\ up' = [up EXCEPT ![w] = IdleUpload]
  /\ UNCHANGED <<documents, document_chunks, nextId, globalEmbeddings,
                 globalChain, chat, csv, panel>>

\* A delete that removes the document row and leaves its chunk rows behind.
DeleteDocument_NoCascade ==
  /\ \E id \in 1..MaxDocs, ok \in BOOLEAN :
       /\ \E i \in 1..Len(documents) : documents[i].id = id
       /\ IF ok
          THEN documents' = SelectSeq(documents, LAMBDA d : d.id # id)
          ELSE UNCHANGED documents
  /\ UNCHANGED <<document_chunks, nextId, globalEmbeddings, globalChain, up,
                 chat, csv, panel>>

\* A delete that also drops the legacy chain of the deleted document.
DeleteDocument_ResetChain ==
  /\ \E id \in 1..MaxDocs, ok \in BOOLEAN :
       /\ \E i \in 1..Len(documents) : documents[i].id = id
       /\ IF ok
          THEN /\ documents' = SelectSeq(documents, LAMBDA d : d.id # id)
               /\ document_chunks' =
                    SelectSeq(document_chunks, LAMBDA c : c.document_id # id)
               /\ globalChain' = IF globalChain = id THEN 0 ELSE globalChain
          ELSE UNCHANGED <<documents, document_chunks, globalChain>>
  /\ UNCHANGED <<nextId, globalEmbeddings, up, chat, csv, panel>>

\* deleteDocument: the delete on documents cascades to document_chunks.
DeleteDocument ==
  /\ \E id \in 1..MaxDocs, ok \in BOOLEAN :
       /\ \E i \in 1..Len(documents) : documents[i].id = id
       /\ IF ok
          THEN /\ documents' = SelectSeq(documents, LAMBDA d : d.id # id)
               /\ document_chunks' =
                    SelectSeq(document_chunks, LAMBDA c : c.document_id # id)
          ELSE UNCHANGED <<documents, document_chunks>>
  /\ UNCHANGED <<nextId, globalEmbeddings, globalChain, up, chat, csv, panel>>

\* getUploadedDocuments: every document row, newest upload first.
GetUploadedDocuments(docs) ==
  [i \in 1..Len(docs) |-> docs[Len(docs) + 1 - i]]

\* -------------------------------------------------------------------- chat
\* The id no document ever gets.
GhostId == MaxDocs + 1

\* The documentIds of a chat request: absent, empty, one id, two ids, ids
\* that exist and ids that do not.
Scopes ==
  {Undefined} \cup
  {[defined |-> TRUE, ids |-> s] :
     s \in {<<>>, <<1, 2>>, <<1, GhostId>>} \cup {<<i>> : i \in 1..GhostId}}

StoredIds == {documents[i].id : i \in 1..Len(documents)}

\* The sets of documents whose chunks lie above the similarity threshold for
\* a question: none, those of one document, all.
Similar == {{}, StoredIds} \cup {{d} : d \in StoredIds}

\* The route's catch block: HTTP 500 carrying the error message.
ChatFailed(call, details) ==
  chat' = [chat EXCEPT !.pc = "done", !.status = 500, !.message = details,
                       !.calls = Append(chat.calls, call)]

\* POST /api/chat: the body is read and the message validated.
ChatPost ==
  /\ chat.pc = "idle"
  /\ \E documentIds \in Scopes, valid \in BOOLEAN :
       IF valid
       THEN chat' = [IdleChat EXCEPT !.pc = "gate", !.route = "gated",
                                     !.documentIds = documentIds]
       ELSE chat' = [IdleChat EXCEPT !.pc = "done", !.route = "gated",
                                     !.status = 400,
                                     !.message = "Message is required"]
  /\ UNCHANGED <<documents, document_chunks, nextId, globalEmbeddings,
                 globalChain, up, csv, panel>>

\* POST of the second chat route: the body is read, the message validated
\* and querySpecificDocuments called; this route has no relevance gate.
ChatPostDirect ==
  /\ chat.pc = "idle"
  /\ \E documentIds \in Scopes, valid \in BOOLEAN :
       IF valid
       THEN chat' = [IdleChat EXCEPT !.pc = "lookup", !.route = "direct",
                                     !.documentIds = documentIds]
       ELSE chat' = [IdleChat EXCEPT !.pc = "done", !.route = "direct",
                                     !.status = 400,
                                     !.message = "Message is required"]
  /\ UNCHANGED <<documents, document_chunks, nextId, globalEmbeddings,
                 globalChain, up, csv, panel>>

\* checkIfDataRelated: one completion call; anything but YES is refused.
ChatGate ==
  /\ chat.pc = "gate"
  /\ \/ ChatFailed("gate", "gate failed")
     \/ \E answer \in GateAnswers :
          IF IsDataRelated(answer)
          THEN chat' = [chat EXCEPT !.pc = "lookup", !.gate = answer,
                                    !.calls = Append(chat.calls, "gate")]
          ELSE chat' = [chat EXCEPT !.pc = "done", !.gate = answer,
                                    !.status = 200, !.message = Refusal,
                                    !.calls = Append(chat.calls, "gate")]
  /\ UNCHANGED <<documents, document_chunks, nextId, globalEmbeddings,
                 globalChain, up, csv, panel>>

\* querySpecificDocuments, the documents query and the scope check.
QueryLookup ==
  /\ chat.pc = "lookup"
  /\ \/ ChatFailed("documents.select", "Failed to check documents")
     \/ LET found == SelectDocuments(documents, chat.documentIds)
        IN IF Len(found) = 0
           THEN ChatFailed("documents.select",
                           IF Scoped(chat.documentIds) THEN NoMatch
                           ELSE NoUpload)
           ELSE chat' = [chat EXCEPT
                           !.pc = "count", !.found = found,
                           !.totalRows = TotalRows(found),
                           !.calls = Append(chat.calls, "documents.select")]
  /\ UNCHANGED <<documents, document_chunks, nextId, globalEmbeddings,
                 globalChain, up, csv, panel>>

\* querySpecificDocuments, the chunk count, the choice of k and the retriever
\* configuration; a failed count is only logged.
QueryCount ==
  /\ chat.pc = "count"
  /\ \E hasCount \in BOOLEAN :
       LET totalChunks == IF hasCount
                          THEN CountChunks(document_chunks, chat.documentIds)
                          ELSE 0
           retrievalK  == RetrievalK(chat.totalRows, hasCount, totalChunks)
       IN chat' = [chat EXCEPT
                     !.pc = "retrieve", !.hasCount = hasCount,
                     !.totalChunks = totalChunks, !.retrievalK = retrievalK,
                     !.retrieverConfig =
                        RetrieverConfig(retrievalK, chat.documentIds),
                     !.calls = Append(chat.calls, "chunks.count")]
  /\ globalEmbeddings' = EnsureEmbeddings(globalEmbeddings)
  /\ UNCHANGED <<documents, document_chunks, nextId, globalChain, up, csv,
                 panel>>

\* chain.invoke, retrieval: the question is embedded and match_documents is
\* called with the retriever's k and filter.
QueryRetrieve ==
  /\ chat.pc = "retrieve"
  /\ \/ ChatFailed("embedQuery", "embedding failed")
     \/ chat' = [chat EXCEPT
                   !.pc = "done", !.status = 500,
                   !.message = "Error searching for documents",
                   !.calls = chat.calls \o <<"embedQuery", "match_documents">>]
     \/ \E similar \in Similar :
          chat' = [chat EXCEPT
                     !.pc = "synthesize",
                     !.context =
                        Context(MatchDocuments(document_chunks, similar,
                                               chat.retrieverConfig.k,
                                               chat.retrieverConfig.filter)),
                     !.calls = chat.calls \o <<"embedQuery", "match_documents">>]
  /\ UNCHANGED <<documents, document_chunks, nextId, globalEmbeddings,
                 globalChain, up, csv, panel>>

\* A return of answer.answer as it is.
AnswerOrSorry_Verbatim(text) == text

\* answer.answer || "Sorry, ..."
AnswerOrSorry(text) == IF text = "" THEN Sorry ELSE text

\* chain.invoke, synthesis: one completion call over the retrieved context.
QuerySynthesize ==
  /\ chat.pc = "synthesize"
  /\ \/ ChatFailed("complete", "completion failed")
     \/ \E text \in {"answer", ""} :
          chat' = [chat EXCEPT !.pc = "done", !.status = 200,
                               !.answer = text,
                               !.message = AnswerOrSorry(text),
                               !.calls = Append(chat.calls, "complete")]
  /\ UNCHANGED <<documents, document_chunks, nextId, globalEmbeddings,
                 globalChain, up, csv, panel>>

\* The response has been sent; the next request may arrive.
ChatReturn ==
  /\ chat.pc = "done"
  /\ chat' = IdleChat
  /\ UNCHANGED <<documents, document_chunks, nextId, globalEmbeddings,
                 globalChain, up, csv, panel>>

\* ---------------------------------------------------------- specifications
\* Uploads and deletions on a store that starts empty.
Next ==
  \/ \E w \in Workers : UploadPost(w)
  \/ \E w \in Workers : IngestParse(w)
  \/ \E w \in Workers : IngestPutDocument(w)
  \/ \E w \in Workers : IngestEmbed(w)
  \/ \E w \in Workers : IngestPutChunks(w)
  \/ \E w \in Workers : IngestBuildChain(w)
  \/ \E w \in Workers : IngestReturn(w)
  \/ DeleteDocument

Spec == Init /\ [][Next]_vars

\* The files earlier uploads left in the store when a chat request arrives:
\* their row counts, and whether the chunk insert succeeded.
AskFiles ==
  [rows : {0, 4, 10, 11, 50, 51, 500, 501}, stored : {TRUE}]
  \cup [rows : {11}, stored : {FALSE}]

\* The chunk rows processUploadedFile writes for a file.
StoredChunks(rows, documentId) ==
  ChunkInserts(DocsWithDocumentId(rows, documentId,
                                  ChunkParams(rows).chunkSize,
                                  ChunkParams(rows).chunkOverlap,
                                  BypassSplitter(rows)),
               documentId)

RECURSIVE ChunksOfFiles(_, _)
ChunksOfFiles(files, i) ==
  IF i > Len(files) THEN <<>>
  ELSE (IF files[i].stored THEN StoredChunks(files[i].rows, i) ELSE <<>>)
       \o ChunksOfFiles(files, i + 1)

\* A process that starts on the store earlier uploads have filled.  Stores
\* that differ only in which id holds which file behave alike, so the files
\* are taken in the order of their row counts.
InitAsk ==
  /\ \E n \in 0..MaxDocs : \E files \in [1..n -> AskFiles] :
       /\ \A i \in 1..n : \A j \in 1..n :
            i < j => files[i].rows <= files[j].rows
       /\ documents = [i \in 1..n |-> [id |-> i, row_count |-> files[i].rows]]
       /\ document_chunks = ChunksOfFiles(files, 1)
       /\ nextId = n + 1
  /\ globalEmbeddings = 0
  /\ globalChain = 0
  /\ up = [w \in Workers |-> IdleUpload]
  /\ chat = IdleChat
  /\ csv = IdleCsv
  /\ panel = NewPanel

\* Chat requests against that store.
NextAsk ==
  \/ ChatPost
  \/ ChatPostDirect
  \/ ChatGate
  \/ QueryLookup
  \/ QueryCount
  \/ QueryRetrieve
  \/ QuerySynthesize
  \/ ChatReturn

SpecAsk == InitAsk /\ [][NextAsk]_vars

\* Two upload requests whose files have passed the route's validation and
\* whose processUploadedFile invocations run side by side, one step (one
\* awaited call) at a time.
Pair == {1, 2}

\* Their files: one below and one above the bypass boundary.
PairRowCounts == {4, 11}

PairFile == [hasFile |-> TRUE, csvName |-> TRUE, csvType |-> TRUE, size |-> 1024]

InitPair ==
  /\ documents = <<>>
  /\ document_chunks = <<>>
  /\ nextId = 1
  /\ globalEmbeddings = 0
  /\ globalChain = 0
  /\ up = [w \in Pair |-> [IdleUpload EXCEPT !.pc = "accepted",
                                             !.file = PairFile]]
  /\ chat = IdleChat
  /\ csv = IdleCsv
  /\ panel = NewPanel

NextPair ==
  \/ \E w \in Pair : IngestParseFrom(w, PairRowCounts)
  \/ \E w \in Pair : IngestPutDocument(w)
  \/ \E w \in Pair : IngestEmbed(w)
  \/ \E w \in Pair : IngestPutChunks(w)
  \/ \E w \in Pair : IngestBuildChain(w)
  \/ \E w \in Pair : IngestReturn(w)

SpecPair == InitPair /\ [][NextPair]_vars

\* ---------------------------------------------------------------- ChatPanel
\* Most messages the panel is followed to.
MaxMessages == 6

\* What the user types: nothing, blanks, a question.
Inputs == {"", "  ", "What is the total?"}

\* input.trim()
Trim(text) == IF text = "  " THEN "" ELSE text

\* onChange of the textarea.
PanelType ==
  /\ \E text \in Inputs \ {panel.input} :
       panel' = [panel EXCEPT !.input = text]
  /\ UNCHANGED <<documents, document_chunks, nextId, globalEmbeddings,
                 globalChain, up, chat, csv>>

\* The parent renders the panel with another selection of documents.
PanelSelect ==
  /\ panel' = [panel EXCEPT !.selected = ~panel.selected]
  /\ UNCHANGED <<documents, document_chunks, nextId, globalEmbeddings,
                 globalChain, up, chat, csv>>

\* A send that does not look at isLoading.
PanelSend_WhileLoading ==
  /\ Len(panel.messages) + 2 <= MaxMessages
  /\ LET text == Trim(panel.input)
     IN IF text = ""
        THEN UNCHANGED panel
        ELSE IF ~panel.selected
        THEN panel' = [panel EXCEPT !.messages = Append(@, WarningMsg)]
        ELSE panel' = [panel EXCEPT
                         !.messages = @ \o <<UserMsg(text), LoadingMsg>>,
                         !.input = "",
                         !.isLoading = TRUE,
                         !.inFlight = @ + 1]
  /\ UNCHANGED <<documents, document_chunks, nextId, globalEmbeddings,
                 globalChain, up, chat, csv>>

\* send, up to the await of sendMessage: Enter or the Send button.
PanelSend ==
  /\ Len(panel.messages) + 2 <= MaxMessages
  /\ LET text == Trim(panel.input)
     IN IF text = "" \/ panel.isLoading
        THEN UNCHANGED panel
        ELSE IF ~panel.selected
        THEN panel' = [panel EXCEPT !.messages = Append(@, WarningMsg)]
        ELSE panel' = [panel EXCEPT
                         !.messages = @ \o <<UserMsg(text), LoadingMsg>>,
                         !.input = "",
                         !.isLoading = TRUE,
                         !.inFlight = @ + 1]
  /\ UNCHANGED <<documents, document_chunks, nextId, globalEmbeddings,
                 globalChain, up, chat, csv>>

\* send, after the await: the request has completed with a message or with
\* an error; the placeholders go, the reply is appended, isLoading is reset.
PanelComplete ==
  /\ panel.inFlight > 0
  /\ \E content \in {"answer", "Failed to process chat message"} :
       panel' = [panel EXCEPT
                   !.messages =
                      Append(SelectSeq(@, LAMBDA m : ~m.isLoading),
                             ReplyMsg(content)),
                   !.isLoading = FALSE,
                   !.inFlight = @ - 1]
  /\ UNCHANGED <<documents, document_chunks, nextId, globalEmbeddings,
                 globalChain, up, chat, csv>>

InitPanel ==
  /\ documents = <<>>
  /\ document_chunks = <<>>
  /\ nextId = 1
  /\ globalEmbeddings = 0
  /\ globalChain = 0
  /\ up = [w \in Workers |-> IdleUpload]
  /\ chat = IdleChat
  /\ csv = IdleCsv
  /\ panel = NewPanel

NextPanel ==
  \/ PanelType
  \/ PanelSelect
  \/ PanelSend
  \/ PanelComplete

SpecPanel == InitPanel /\ [][NextPanel]_vars

\* One document more than the documents query returns.
ManyDocs == DocLimit + 1

\* The id of the i-th document of a large store; GhostId stays unused.
ManyId(i) == IF i < GhostId THEN i ELSE i + 1

RECURSIVE ManyChunks(_, _, _)
ManyChunks(n, rows, i) ==
  IF i > n THEN <<>>
  ELSE StoredChunks(rows, ManyId(i)) \o ManyChunks(n, rows, i + 1)

\* A process that starts on a store of DocLimit or ManyDocs documents, each
\* of the same small row count, so that it does not matter which rows the
\* unordered documents query returns.
InitMany ==
  /\ \E n \in {DocLimit, ManyDocs}, rows \in {1, 5} :
       /\ documents = [i \in 1..n |-> [id |-> ManyId(i), row_count |-> rows]]
       /\ document_chunks = ManyChunks(n, rows, 1)
       /\ nextId = ManyId(n) + 1
  /\ globalEmbeddings = 0
  /\ globalChain = 0
  /\ up = [w \in Workers |-> IdleUpload]
  /\ chat = IdleChat
  /\ csv = IdleCsv
  /\ panel = NewPanel

\* Chat requests against the large store.
SpecMany == InitMany /\ [][NextAsk]_vars

\* The tables a parse can return: one to MaxCols distinct headers, up to
\* MaxRows data rows with one value per header, and no row that is a single
\* empty field, the header row included (the parser skips such lines).
Headers ==
  {h \in UNION {[1..n -> Cells] : n \in 1..MaxCols} :
     /\ \A i \in 1..Len(h) : \A j \in 1..Len(h) : i # j => h[i] # h[j]
     /\ h # <<<<>>>>}

DataRows(n) ==
  {d \in UNION {[1..m -> [1..n -> Cells]] : m \in 0..MaxRows} :
     \A r \in 1..Len(d) : d[r] # <<<<>>>>}

\* A parser that has just been handed the parsed table of a file.
InitParse ==
  /\ documents = <<>>
  /\ document_chunks = <<>>
  /\ nextId = 1
  /\ globalEmbeddings = 0
  /\ globalChain = 0
  /\ up = [w \in Workers |-> IdleUpload]
  /\ chat = IdleChat
  /\ \E headers \in Headers : \E data \in DataRows(Len(headers)) :
       csv = [IdleCsv EXCEPT !.pc = "parsed", !.headers = headers,
                             !.data = data]
  /\ panel = NewPanel

\* The complete callback builds csvContent from the parsed table.
BuildCsvContent ==
  /\ csv.pc = "parsed"
  /\ csv' = [csv EXCEPT !.pc = "built",
                        !.csvContent = CsvContent(csv.headers, csv.data)]
  /\ UNCHANGED <<documents, document_chunks, nextId, globalEmbeddings,
                 globalChain, up, chat, panel>>

\* The canonical text is parsed again.
Reparse ==
  /\ csv.pc = "built"
  /\ LET again == PapaParse(csv.csvContent)
     IN csv' = [csv EXCEPT !.pc = "reparsed", !.fields = again.fields,
                           !.rowCount = Len(again.data)]
  /\ UNCHANGED <<documents, document_chunks, nextId, globalEmbeddings,
                 globalChain, up, chat, panel>>

NextParse ==
  \/ BuildCsvContent
  \/ Reparse

SpecParse == InitParse /\ [][NextParse]_vars

\* ------------------------------------------------------------------ claims
\* The chunk count has been answered and k chosen for the current request.
Counted == InSeq("chunks.count", chat.calls)

\* The similarity search has returned for the current request.
Retrieved == chat.pc = "synthesize" \/ InSeq("complete", chat.calls)

\* C1: for R_total <= 10 and every chunk count the store reports, 0 included,
\* the search is issued with k = max(C_total, 10).
C1_SmallTierK ==
  (Counted /\ chat.hasCount /\ chat.totalRows <= 10)
    => chat.retrieverConfig.k = Max(chat.totalChunks, 10)

\* C2: for 10 < R_total <= 50 and every chunk count the store reports, 0
\* included, k = clamp(max(C_total, 20), 20, 100): k lies in 20..100 and is
\* C_total whenever C_total lies in 20..100.
C2_ClampTierK ==
  (Counted /\ chat.hasCount /\ chat.totalRows > 10 /\ chat.totalRows <= 50)
    => /\ chat.retrieverConfig.k = Min(Max(chat.totalChunks, 20), 100)
       /\ chat.retrieverConfig.k \in 20..100
       /\ (chat.totalChunks \in 20..100
             => chat.retrieverConfig.k = chat.totalChunks)

\* C3: for 50 < R_total <= 500 the search width is min(R_total, 150); for
\* R_total > 500 it is the integer nearest to min(0.3 * R_total, 200); neither
\* depends on the chunk count, and R_total = 500 is in the lower of the two
\* tiers; R_total = 50 is in the tier below them, where a missing count gives
\* 100 and not min(50, 150).
C3_RowTiersK ==
  Counted =>
    /\ (chat.totalRows > 50 /\ chat.totalRows <= 500)
         => chat.retrieverConfig.k = Min(chat.totalRows, 150)
    /\ chat.totalRows > 500
         => LET exact == Min(3 * chat.totalRows, 2000)
            IN (10 * chat.retrieverConfig.k - exact) \in -5..5
    /\ (chat.totalRows = 50 /\ ~chat.hasCount) => chat.retrieverConfig.k = 100

\* C3 witness: a search over more than 500 rows whose 0.3 * R_total is not
\* an integer and is below the cap.
C3_Witness ==
  /\ Counted
  /\ chat.totalRows > 500
  /\ (3 * chat.totalRows) % 10 > 5
  /\ chat.retrieverConfig.k < 200
  /\ InSeq("match_documents", chat.calls)

\* C4 as stated: without a chunk count the query goes on and uses k = 50 in
\* both tiers whose k depends on the count.
C4_DefaultFifty ==
  (Counted /\ ~chat.hasCount /\ chat.totalRows <= 50)
    => chat.retrieverConfig.k = 50

\* C4 amended: without a chunk count the query goes on to the search, with
\* k = 50 for R_total <= 10 and k = 100 for 10 < R_total <= 50.
C4_DefaultPerTier ==
  (Counted /\ ~chat.hasCount) =>
    /\ chat.totalRows <= 10 => chat.retrieverConfig.k = 50
    /\ (chat.totalRows > 10 /\ chat.totalRows <= 50)
         => chat.retrieverConfig.k = 100
    /\ chat.pc \in {"retrieve", "synthesize", "done"}
    /\ chat.pc = "done" => InSeq("embedQuery", chat.calls)

\* C4 witness: a search issued for 11..50 rows after the count failed.
C4_Witness ==
  /\ Counted
  /\ ~chat.hasCount
  /\ chat.totalRows > 10
  /\ chat.totalRows <= 50
  /\ InSeq("match_documents", chat.calls)

\* C5: a question the gate answers NO gets the fixed refusal and nothing is
\* called after the gate.
C5_RefusalShortCircuit ==
  chat.gate = "NO" =>
    /\ chat.pc = "done"
    /\ chat.status = 200
    /\ chat.message = "I can only answer questions about the CSV data you've uploaded. Please ask questions about your data such as counts, statistics, specific records, or data analysis."
    /\ chat.calls = <<"gate">>

\* C5 witness: a refused request on a store that holds documents.
C5_Witness ==
  /\ chat.gate = "NO"
  /\ chat.pc = "done"
  /\ Len(documents) > 0

\* C6: with a non-empty scope every chunk the search returns belongs to a
\* document of the scope.
C6_ContextInScope ==
  (Retrieved /\ chat.documentIds.defined /\ chat.documentIds.ids # <<>>)
    => \A i \in 1..Len(chat.context) :
         InSeq(chat.context[i].document_id, chat.documentIds.ids)

\* C7: the retriever configuration carries a document_id filter listing
\* exactly the requested ids when the id list is non-empty, and no filter
\* when the list is absent or empty.
C7_FilterIffScoped ==
  Counted =>
    IF chat.documentIds.defined /\ chat.documentIds.ids # <<>>
    THEN /\ chat.retrieverConfig.hasFilter
         /\ chat.retrieverConfig.filter = chat.documentIds.ids
    ELSE ~chat.retrieverConfig.hasFilter

\* C7 witness: a configuration built for a request that names two ids.
C7_Witness ==
  /\ Counted
  /\ chat.retrieverConfig.hasFilter
  /\ Len(chat.retrieverConfig.filter) = 2

\* The documents query of the current request was answered by the store.
LookedUp ==
  /\ InSeq("documents.select", chat.calls)
  /\ chat.message # "Failed to check documents"

\* C8: a non-empty scope that matches no stored document fails with the
\* no-match error, an absent or empty scope on an empty store fails with the
\* no-upload error, and in both cases nothing is called after the documents
\* query.
C8_ScopeErrors ==
  LookedUp =>
    LET named == chat.documentIds.defined /\ chat.documentIds.ids # <<>>
        match == \E i \in 1..Len(documents) :
                   InSeq(documents[i].id, chat.documentIds.ids)
    IN /\ (named /\ ~match)
            => /\ chat.pc = "done"
               /\ chat.status = 500
               /\ chat.message = "No documents found with the specified IDs."
               /\ chat.calls = IF chat.route = "gated"
                               THEN <<"gate", "documents.select">>
                               ELSE <<"documents.select">>
       /\ (~named /\ documents = <<>>)
            => /\ chat.pc = "done"
               /\ chat.status = 500
               /\ chat.message = "No CSV file uploaded. Please upload a CSV file first before asking questions."
               /\ chat.calls = IF chat.route = "gated"
                               THEN <<"gate", "documents.select">>
                               ELSE <<"documents.select">>

\* C8 witness: the no-match error on a store that holds documents.
C8_Witness ==
  /\ chat.message = "No documents found with the specified IDs."
  /\ chat.pc = "done"
  /\ Len(documents) > 0

\* The chunk rows stored for a document.
ChunksOf(id) == SelectSeq(document_chunks, LAMBDA c : c.document_id = id)

\* C9: once an ingest has stored its chunks, the chunk_index values of its
\* document are exactly 0..N-1 without duplicates, and each chunk carries
\* the document's id in the column and in the metadata and its chunk_index
\* in the metadata.
C9_DenseChunkIndex ==
  \A w \in Workers :
    up[w].pc \in {"stored", "done"} =>
      LET mine == ChunksOf(up[w].documentId)
      IN /\ {mine[i].chunk_index : i \in 1..Len(mine)} = 0..(Len(mine) - 1)
         /\ (\E i \in 1..Len(documents) : documents[i].id = up[w].documentId)
              => Len(mine) = up[w].result.chunksStored
         /\ \A i \in 1..Len(mine) :
              /\ mine[i].metadata.document_id = up[w].documentId
              /\ mine[i].metadata.chunk_index = mine[i].chunk_index

\* C9 witness: a finished ingest of the splitter tier that stored more
\* chunks than the file has rows.
C9_Witness ==
  \E w \in Workers :
    /\ up[w].pc = "done"
    /\ up[w].rows > 500
    /\ Len(ChunksOf(up[w].documentId)) > up[w].rows

\* C10: the chunking parameters follow the row count R: R <= 10 skips the
\* splitter and stores one chunk per row, 10 < R <= 50 uses 2000/100,
\* 50 < R <= 500 uses 1500/75, R > 500 uses 800/40.
C10_TierTable ==
  \A w \in Workers :
    up[w].pc \in {"chunked", "embedded", "stored", "done"} =>
      LET R == up[w].rows
      IN /\ R <= 10 => up[w].bypass
         /\ (R <= 10 /\ up[w].pc \in {"stored", "done"})
              => up[w].result.chunksStored = R
         /\ (R > 10 /\ R <= 50)
              => ~up[w].bypass /\ up[w].chunkSize = 2000
                               /\ up[w].chunkOverlap = 100
         /\ (R > 50 /\ R <= 500)
              => ~up[w].bypass /\ up[w].chunkSize = 1500
                               /\ up[w].chunkOverlap = 75
         /\ R > 500
              => ~up[w].bypass /\ up[w].chunkSize = 800
                               /\ up[w].chunkOverlap = 40

\* C10 witness: a finished ingest of exactly 500 rows.
C10_Witness ==
  \E w \in Workers :
    /\ up[w].pc = "done"
    /\ up[w].rows = 500
    /\ up[w].chunkSize = 1500

\* The step of processUploadedFile an ingest ended on.
LastCall(w) == up[w].calls[Len(up[w].calls)]

\* C11: a failure of parsing, of the document insert, of the embedding call,
\* of the chunk insert or of the chain construction always ends in the
\* structured failure result (success false, chunksStored 0, an error
\* message), which the upload route answers with HTTP 500; an ingest is never
\* anywhere but in one of its steps, finished or failed.
C11_StructuredFailure ==
  \A w \in Workers :
    /\ up[w].pc \in {"idle", "accepted", "rejected", "parsed", "chunked",
                     "embedded", "stored",
                     "done", "failed"}
    /\ up[w].pc = "failed" =>
         /\ LastCall(w) \in {"parse", "documents.insert", "embedDocuments",
                             "document_chunks.insert", "chain"}
         /\ ~up[w].result.success
         /\ up[w].result.chunksStored = 0
         /\ up[w].result.error # ""
         /\ up[w].status = 500
    /\ up[w].status = 500 => up[w].pc = "failed"
    /\ up[w].pc = "done" => up[w].result.success /\ up[w].status = 200

\* C11 witness: the chain construction failed after chunks had been stored.
C11_Witness ==
  \E w \in Workers :
    /\ up[w].pc = "failed"
    /\ LastCall(w) = "chain"
    /\ ChunksOf(up[w].documentId) # <<>>
    /\ up[w].result.chunksStored = 0

\* C12 as stated: after a failed embedding batch the store holds neither a
\* chunk row nor the document row of that ingestion.
C12_NoTrace ==
  \A w \in Workers :
    (up[w].pc = "failed" /\ LastCall(w) = "embedDocuments") =>
       /\ ChunksOf(up[w].documentId) = <<>>
       /\ up[w].documentId \notin StoredIds

\* C12: the step in which the embedding batch fails stores no chunk row and
\* ends in the failure result, and it leaves the documents table as it was:
\* the document row inserted before the embedding call is not removed.
C12_NoChunkRowStays ==
  [][\A w \in Workers :
       (up[w].pc = "chunked" /\ up'[w].pc = "failed") =>
          /\ documents' = documents
          /\ document_chunks' = document_chunks
          /\ \A i \in 1..Len(document_chunks') :
                document_chunks'[i].document_id # up[w].documentId
          /\ ~up'[w].result.success
          /\ up'[w].result.chunksStored = 0]_vars

\* C12 witness: the embedding batch failed and the document row is stored.
C12_Witness ==
  \E w \in Workers :
    /\ up[w].pc = "failed"
    /\ LastCall(w) = "embedDocuments"
    /\ up[w].documentId \in StoredIds
    /\ ChunksOf(up[w].documentId) = <<>>

\* C13: the step in which parsing fails ends in the failure result, changes
\* neither table, assigns no document id and makes no embedding call.
C13_ParseFailurePersistsNothing ==
  [][\A w \in Workers :
       (up[w].pc = "accepted" /\ up'[w].pc = "failed") =>
          /\ documents' = documents
          /\ document_chunks' = document_chunks
          /\ nextId' = nextId
          /\ up'[w].calls = <<"parse">>
          /\ up'[w].documentId = 0
          /\ ~up'[w].result.success
          /\ up'[w].result.chunksStored = 0
          /\ up'[w].result.error # ""]_vars

\* C13 witness: parsing failed while an earlier upload is in the store.
C13_Witness ==
  \E w \in Workers :
    /\ up[w].pc = "failed"
    /\ LastCall(w) = "parse"
    /\ Len(documents) > 0
    /\ Len(document_chunks) > 0

\* C14: the step in which the chunk insert fails ends in the failure result
\* and deletes nothing: a document row that was stored stays, without chunk
\* rows, in the list of getUploadedDocuments and in the documents an unscoped
\* ask finds; and a document row leaves the store only in a step that is no
\* ingest step, a deletion.
C14_OrphanRowStays ==
  [][/\ \A w \in Workers :
          (up[w].pc = "embedded" /\ up'[w].pc = "failed") =>
             LET id     == up[w].documentId
                 listed == GetUploadedDocuments(documents')
                 found  == SelectDocuments(documents', Undefined)
             IN /\ ~up'[w].result.success
                /\ up'[w].result.chunksStored = 0
                /\ documents' = documents
                /\ document_chunks' = document_chunks
                /\ \A i \in 1..Len(document_chunks') :
                      document_chunks'[i].document_id # id
                /\ id \in StoredIds =>
                     /\ \E i \in 1..Len(listed) : listed[i].id = id
                     /\ \E i \in 1..Len(found) : found[i].id = id
     /\ (\E i \in 1..Len(documents) :
            \A j \in 1..Len(documents') : documents'[j].id # documents[i].id)
          => up' = up]_vars

\* C14 witness: the chunk insert failed and the document row is stored
\* without chunk rows.
C14_Witness ==
  \E w \in Workers :
    /\ up[w].pc = "failed"
    /\ LastCall(w) = "document_chunks.insert"
    /\ up[w].documentId \in StoredIds
    /\ ChunksOf(up[w].documentId) = <<>>

\* C15: a step that deletes document id removes exactly its row and its
\* chunk rows, so that no chunk row of id remains, getUploadedDocuments no
\* longer lists it, and every other row of both tables is unchanged; and an
\* id that has been deleted never comes back, neither as a document row nor
\* as the document_id of a chunk row.
C15_DeleteCascades ==
  [][/\ \A id \in StoredIds :
          (\A j \in 1..Len(documents') : documents'[j].id # id) =>
             LET listed == GetUploadedDocuments(documents')
             IN /\ documents' = SelectSeq(documents, LAMBDA d : d.id # id)
                /\ document_chunks' =
                     SelectSeq(document_chunks, LAMBDA c : c.document_id # id)
                /\ \A i \in 1..Len(document_chunks') :
                      document_chunks'[i].document_id # id
                /\ \A i \in 1..Len(listed) : listed[i].id # id
     /\ \A id \in (1..(nextId - 1)) \ StoredIds :
          /\ \A j \in 1..Len(documents') : documents'[j].id # id
          /\ document_chunks' # document_chunks =>
               \A i \in 1..Len(document_chunks') :
                  document_chunks'[i].document_id # id]_vars

\* C15 witness: the second document was deleted after its chunks had been
\* stored, and the first document still has its chunks.
C15_Witness ==
  \E w \in Workers :
    /\ up[w].pc = "stored"
    /\ up[w].documentId = 2
    /\ up[w].result.chunksStored > 0
    /\ StoredIds = {1}
    /\ ChunksOf(1) # <<>>
    /\ ChunksOf(2) = <<>>

\* C16 as stated: a successful ingest returns the id of the row it inserted
\* and, while that document is stored, the number of its chunk rows; a failed
\* ingest returns chunksStored 0 and has left no chunk row in the store.
C16_ResultMatchesStore ==
  \A w \in Workers :
    /\ up[w].pc = "done" =>
         /\ up[w].result.success
         /\ up[w].result.documentId = up[w].documentId
         /\ up[w].documentId \in StoredIds =>
              up[w].result.chunksStored = Len(ChunksOf(up[w].documentId))
    /\ up[w].pc = "failed" =>
         /\ ~up[w].result.success
         /\ up[w].result.chunksStored = 0
         /\ up[w].documentId # 0 => ChunksOf(up[w].documentId) = <<>>

\* C17: an ingest of R <= 10 rows stores exactly R chunk rows, and chunk i
\* (from 0) holds the whole flattened content of row i + 1 with that row's
\* metadata: the wide first row is not split and no rows are merged.
C17_OneChunkPerRow ==
  \A w \in Workers :
    (/\ up[w].pc \in {"stored", "done"}
     /\ up[w].rows <= 10
     /\ up[w].documentId \in StoredIds) =>
       LET mine == ChunksOf(up[w].documentId)
       IN /\ Len(mine) = up[w].rows
          /\ up[w].result.chunksStored = up[w].rows
          /\ \A i \in 1..Len(mine) :
                /\ mine[i].chunk_index = i - 1
                /\ mine[i].metadata.row = i
                /\ mine[i].content = ParsedDocs(up[w].rows)[i].pageContent
                /\ mine[i].content = (IF i = 1 THEN WideRow ELSE ShortRow)

\* C17 witness: a finished ingest of exactly 10 rows with its 10 chunk rows.
C17_Witness ==
  \E w \in Workers :
    /\ up[w].pc = "done"
    /\ up[w].rows = 10
    /\ Len(ChunksOf(up[w].documentId)) = 10

\* C18 as stated: an ingest of R > 500 rows uses chunk size 800 with overlap
\* 40 and never stores more chunks than the file has rows.
C18_NoMoreChunksThanRows ==
  \A w \in Workers :
    (up[w].pc \in {"stored", "done"} /\ up[w].rows > 500) =>
       /\ up[w].chunkSize = 800
       /\ up[w].chunkOverlap = 40
       /\ up[w].result.chunksStored <= up[w].rows

\* The number of completion calls of the chat request.
Completions == Len(SelectSeq(chat.calls, LAMBDA c : c = "complete"))

\* C19 as stated: a question that was accepted and answered has had exactly
\* one completion call, also with an empty context, and the string returned
\* is the completion's text unchanged.
C19_AnswerVerbatim ==
  (chat.pc = "done" /\ chat.status = 200 /\ IsDataRelated(chat.gate)) =>
     /\ Completions = 1
     /\ chat.message = chat.answer

\* C19: a question that was accepted and answered has had exactly one
\* completion call, also with an empty context, and the string returned is
\* the completion's text unchanged unless that text is empty, and then it is
\* the fixed "Sorry, I could not find an answer to your question."; no
\* request makes a second completion call.
C19_AnswerOrSorry ==
  /\ Completions <= 1
  /\ (chat.pc = "done" /\ chat.status = 200 /\ IsDataRelated(chat.gate)) =>
        /\ Completions = 1
        /\ chat.calls[Len(chat.calls)] = "complete"
        /\ chat.answer # "" => chat.message = chat.answer
        /\ chat.answer = "" => chat.message = Sorry

\* C19 witness: retrieval returned no chunk, the completion was still called
\* and returned an empty text.
C19_Witness ==
  /\ chat.pc = "done"
  /\ chat.status = 200
  /\ chat.context = <<>>
  /\ Completions = 1
  /\ chat.answer = ""
  /\ chat.message = Sorry

\* The set of the elements of a sequence.
Range(s) == {s[i] : i \in 1..Len(s)}

\* C20 as stated: parsing the canonical text again gives the row count and
\* the header set of the parsed table, whatever its values and headers hold.
C20_RoundTrip ==
  csv.pc = "reparsed" =>
     /\ csv.rowCount = Len(csv.data)
     /\ Range(csv.fields) = Range(csv.headers)

\* C21: an upload request whose CSV file is larger than 3 * 1024 * 1024
\* bytes is answered with HTTP 400 in a step that changes nothing in the
\* store and makes no call of processUploadedFile, and from there the request
\* only ends; a CSV file of exactly that size goes on to processUploadedFile.
C21_SizeLimit ==
  [][\A w \in Workers :
       /\ (up[w].pc = "idle" /\ up'[w].pc # "idle") =>
            LET file == up'[w].file
                isCsv == file.hasFile /\ (file.csvName \/ file.csvType)
            IN /\ (isCsv /\ file.size > 3 * 1024 * 1024) =>
                    /\ up'[w].pc = "rejected"
                    /\ up'[w].status = 400
                    /\ up'[w].calls = <<>>
                    /\ documents' = documents
                    /\ document_chunks' = document_chunks
                    /\ nextId' = nextId
               /\ (isCsv /\ file.size = 3 * 1024 * 1024) =>
                    up'[w].pc = "accepted"
       /\ (up[w].pc = "rejected" /\ up'[w] # up[w]) =>
            /\ up'[w] = IdleUpload
            /\ documents' = documents
            /\ document_chunks' = document_chunks]_vars

\* C21 witness: a CSV file one byte over the limit was turned away while an
\* earlier upload is in the store.
C21_Witness ==
  \E w \in Workers :
    /\ up[w].pc = "rejected"
    /\ up[w].file.hasFile
    /\ up[w].file.csvName
    /\ up[w].file.size = 3 * 1024 * 1024 + 1
    /\ up[w].status = 400
    /\ Len(document_chunks) > 0

\* C22 as stated: the R_total of a request is the sum of row_count over all
\* stored documents of its scope (all documents when the scope is absent or
\* empty), and the chunk count and the chunks the search returns belong to
\* the same documents.
C22_RowTotalOverScope ==
  (InSeq("documents.select", chat.calls) /\ chat.found # <<>>) =>
    LET inScope == SelectSeq(documents,
                             LAMBDA d : Scoped(chat.documentIds)
                                           => InSeq(d.id, chat.documentIds.ids))
        summed  == {chat.found[i].id : i \in 1..Len(chat.found)}
    IN /\ chat.totalRows =
            SumSeq([i \in 1..Len(inScope) |-> inScope[i].row_count])
       /\ (Counted /\ chat.hasCount) =>
            chat.totalChunks =
              Len(SelectSeq(document_chunks,
                            LAMBDA c : c.document_id \in summed))
       /\ Retrieved =>
            \A i \in 1..Len(chat.context) :
               chat.context[i].document_id \in summed

\* C23 as stated: the gated chat route refuses exactly when the classifier's
\* answer, trimmed and upper-cased, is NO; any answer that is neither YES nor
\* NO goes on to the documents query.
C23_GateDefaultsYes ==
  (chat.route = "gated" /\ chat.gate # "") =>
     /\ chat.message = Refusal <=> TrimUpper(chat.gate) = "NO"
     /\ TrimUpper(chat.gate) \notin {"YES", "NO"} =>
          (chat.pc # "done" \/ InSeq("documents.select", chat.calls))

\* The steps of processUploadedFile in the order of the code.
IngestSteps ==
  <<"parse", "documents.insert", "embedDocuments", "document_chunks.insert",
    "chain">>

\* C24 as stated: an ingest writes to the store (document row or chunk rows)
\* only after its embedding call.
C24_NothingStoredBeforeEmbed ==
  \A w \in Workers :
    \A i \in 1..Len(up[w].calls) :
      (/\ up[w].calls[i] \in {"documents.insert", "document_chunks.insert"}
       /\ ~(up[w].pc = "failed" /\ i = Len(up[w].calls)))
        => \E j \in 1..(i - 1) : up[w].calls[j] = "embedDocuments"

\* C24: an ingest performs its steps in the order parse, document-row insert,
\* chunking and embedding batch, chunk-row insert: the document row is
\* written before the embedding call, no chunk row is written before it, and
\* the embedding call is made exactly once, with one text per chunk stored.
C24_PipelineOrder ==
  \A w \in Workers :
    /\ Len(up[w].calls) <= Len(IngestSteps)
    /\ \A i \in 1..Len(up[w].calls) : up[w].calls[i] = IngestSteps[i]
    /\ up[w].pc \in {"embedded", "stored", "done"} =>
         Len(SelectSeq(up[w].calls, LAMBDA c : c = "embedDocuments")) = 1
    /\ up[w].pc \in {"accepted", "parsed", "chunked"} =>
         /\ ~InSeq("embedDocuments", up[w].calls)
         /\ ChunksOf(up[w].documentId) = <<>>
    /\ up[w].pc = "chunked" => up[w].documentId = nextId - 1
    /\ up[w].pc \in {"stored", "done"} =>
         /\ up[w].texts = up[w].result.chunksStored
         /\ up[w].documentId \in StoredIds =>
              up[w].texts = Len(ChunksOf(up[w].documentId))

\* C24 witness: the chunk rows of a 501-row file have been written after one
\* embedding call over all 504 chunks.
C24_Witness ==
  \E w \in Workers :
    /\ up[w].pc = "stored"
    /\ up[w].rows = 501
    /\ up[w].calls = <<"parse", "documents.insert", "embedDocuments",
                       "document_chunks.insert">>
    /\ up[w].texts = 504
    /\ Len(ChunksOf(up[w].documentId)) = 504

C29_LegacyChain ==
  [][/\ globalChain = 0 =>
          /\ ~IsVectorStoreReady(globalChain)
          /\ QueryVectorStoreError(globalChain) =
               "No CSV file has been uploaded yet. Please upload a CSV file first."
     /\ globalChain # 0 =>
          /\ IsVectorStoreReady(globalChain)
          /\ QueryVectorStoreError(globalChain) = ""
     /\ \A w \in Workers :
          IF up[w].pc = "stored" /\ up'[w].pc = "done"
          THEN /\ up'[w].result.success
               /\ globalChain' = up'[w].result.documentId
               /\ globalChain' # 0
          ELSE up'[w] # up[w] => globalChain' = globalChain
     /\ up' = up => globalChain' = globalChain]_vars

\* C29 witness: the chain is scoped to a document that has been deleted, and
\* a later ingest has failed.
C29_Witness ==
  \E w \in Workers :
    /\ globalChain = 1
    /\ 1 \notin StoredIds
    /\ up[w].pc = "failed"
    /\ up[w].documentId = 2

\* C26: however two concurrent ingests interleave, the chunk rows stored
\* under an ingest's document id are exactly the chunks of its own file, with
\* its id in the column and the metadata and chunk_index 0..N-1 in order; its
\* result names its own document and the number of its own chunk rows; the
\* two ingests never share a document id; and every chunk row carries the id
\* of a stored document.
C26_IngestsDoNotMix ==
  /\ \A w \in DOMAIN up :
       up[w].pc \in {"stored", "done"} =>
          LET mine == ChunksOf(up[w].documentId)
              own  == ParsedDocs(up[w].rows)
          IN /\ Len(mine) = up[w].result.chunksStored
             /\ Len(mine) = IF up[w].rows = 11 THEN 12 ELSE up[w].rows
             /\ \A i \in 1..Len(mine) :
                   /\ mine[i].chunk_index = i - 1
                   /\ mine[i].metadata.chunk_index = i - 1
                   /\ mine[i].metadata.document_id = up[w].documentId
                   /\ mine[i].metadata.row \in 1..up[w].rows
                   /\ i > 2 => mine[i].content
                                 = own[mine[i].metadata.row].pageContent
             /\ up[w].pc = "done" =>
                  up[w].result.documentId = up[w].documentId
             /\ \E i \in 1..Len(documents) :
                   /\ documents[i].id = up[w].documentId
                   /\ documents[i].row_count = up[w].rows
  /\ \A v \in DOMAIN up : \A w \in DOMAIN up :
       (v # w /\ up[v].documentId # 0) => up[v].documentId # up[w].documentId
  /\ \A i \in 1..Len(document_chunks) :
       /\ document_chunks[i].document_id \in StoredIds
       /\ document_chunks[i].metadata.document_id
            = document_chunks[i].document_id

\* C26 witness: both ingests have finished on different files; the second
\* request inserted its document row first and its chunk rows last.
C26_Witness ==
  /\ DOMAIN up = {1, 2}
  /\ up[1].pc = "done"
  /\ up[2].pc = "done"
  /\ up[1].rows = 11
  /\ up[2].rows = 4
  /\ up[2].documentId = 1
  /\ up[1].documentId = 2
  /\ document_chunks[1].document_id = 2
  /\ Len(document_chunks) = 16

\* C27: a request whose id list names at least one stored document and at
\* least one id that is not stored gets no scope error: the documents found
\* are the stored ones of the list, R_total is the sum of their row counts,
\* and the retriever's filter is the whole requested list.
C27_PartlyStoredScope ==
  LET ids     == chat.documentIds.ids
      stored  == {i \in 1..Len(ids) : ids[i] \in StoredIds}
      wanted  == SelectSeq(documents, LAMBDA d : InSeq(d.id, ids))
  IN (/\ LookedUp
      /\ chat.documentIds.defined
      /\ stored # {}
      /\ stored # 1..Len(ids)) =>
        /\ chat.message \notin {NoMatch, NoUpload}
        /\ chat.found = wanted
        /\ chat.totalRows =
             SumSeq([i \in 1..Len(wanted) |-> wanted[i].row_count])
        /\ Counted =>
             /\ chat.retrieverConfig.hasFilter
             /\ chat.retrieverConfig.filter = ids

\* C27 witness: the search has run for a request that names document 1 and
\* an id no document has, on a store where document 1 has rows.
C27_Witness ==
  /\ InSeq("match_documents", chat.calls)
  /\ chat.documentIds.defined
  /\ chat.documentIds.ids = <<1, GhostId>>
  /\ chat.retrieverConfig.filter = <<1, GhostId>>
  /\ Len(chat.found) = 1
  /\ chat.totalRows > 0

\* C28 as stated: on every chat route querySpecificDocuments runs only for a
\* request whose first call was the relevance gate and whose gate answer was
\* YES.
C28_GateBeforeRetrieval ==
  (\/ chat.pc \in {"lookup", "count", "retrieve", "synthesize"}
   \/ InSeq("documents.select", chat.calls)) =>
     /\ chat.calls # <<>> => chat.calls[1] = "gate"
     /\ TrimUpper(chat.gate) = "YES"

\* C30: the panel never has more than one request in flight, and has one
\* exactly while isLoading; then the list ends with the user message and the
\* one placeholder, and otherwise it holds no placeholder; every user message
\* is followed by the placeholder or by exactly one assistant reply (answer
\* or error); a send while isLoading changes nothing; a send with a question
\* and no selected document appends only the warning and issues no request.
C30_OneRequestOneReply ==
  [][LET msgs == panel'.messages
         n    == Len(msgs)
     IN /\ panel'.inFlight \in {0, 1}
        /\ panel'.isLoading <=> panel'.inFlight = 1
        /\ Len(SelectSeq(msgs, LAMBDA m : m.isLoading))
             = panel'.inFlight
        /\ panel'.isLoading =>
             /\ msgs[n] = LoadingMsg
             /\ msgs[n - 1].role = "user"
        /\ \A i \in 1..n :
             msgs[i].role = "user" =>
                /\ i < n
                /\ msgs[i + 1].role = "assistant"
                /\ msgs[i + 1] # WarningMsg
                /\ msgs[i + 1].isLoading => i + 1 = n
        /\ (panel.isLoading /\ panel'.isLoading) =>
             /\ panel'.messages = panel.messages
             /\ panel'.inFlight = panel.inFlight
        /\ (panel.isLoading /\ ~panel'.isLoading) =>
             /\ n = Len(panel.messages)
             /\ \A i \in 1..(n - 1) : msgs[i] = panel.messages[i]
             /\ msgs[n - 1].role = "user"
             /\ msgs[n].role = "assistant" /\ ~msgs[n].isLoading
        /\ (~panel.isLoading /\ ~panel.selected
            /\ panel'.messages # panel.messages) =>
             /\ panel'.messages = Append(panel.messages, WarningMsg)
             /\ panel'.inFlight = 0
             /\ ~panel'.isLoading]_vars

\* C30 witness: after a warning, a request has completed with an error and
\* the next one is in flight.
C30_Witness ==
  /\ panel.isLoading
  /\ panel.inFlight = 1
  /\ Len(panel.messages) = 6
  /\ panel.messages[2] = WarningMsg
  /\ panel.messages[3].role = "user"
  /\ panel.messages[4] = ReplyMsg("Failed to process chat message")
  /\ panel.messages[6] = LoadingMsg
====
